---- MODULE Spec2Model ----
(***************************************************************************)
(* ez_tweet (src/cli.py): a one-window Tk application that validates a     *)
(* text and publishes it through XClient.post on a background thread.      *)
(*                                                                         *)
(* Strings that the program builds with f-strings or join are modelled as  *)
(* sequences of string fragments, e.g. "Characters: 3/280" is              *)
(* <<"Characters: ", "3", "/", "2", "8", "0">>; the empty string is <<>>.  *)
(* An Optional value is a sequence of length 0 (None / unbound) or 1.      *)
(* A text is a sequence of one-character strings.                          *)
(***************************************************************************)
EXTENDS Integers, Sequences, FiniteSets, TLC

VARIABLES
    \* ---- TweetApp (UI thread owns the widgets) ----
    dry_run,        \* TweetApp.dry_run
    max_length,     \* TweetApp.max_length
    text,           \* content of the tk.Text widget, without Tk's final newline
    count_var,      \* TweetApp.count_var
    button,         \* state of TweetApp.post_button: "normal" | "disabled"
    status_var,     \* TweetApp.status_var
    dialogs,        \* stack of open modal messagebox.showerror dialogs
    queue,          \* callbacks registered with root.after(0, ...), in order
    threads,        \* the worker threads started by post_message, by number
    \* ---- observation of calls made by the program ----
    errors_shown,   \* messages passed to messagebox.showerror since the last worker start
    callback_errors,\* exceptions raised inside Tk callbacks since the last worker start
    post_calls,     \* number of XClient.post calls
    net_calls,      \* number of tweepy create_tweet calls
    event,          \* the handler or thread step executed last
    \* ---- run() / load_credentials ----
    main_pc,        \* position of run(): "start" | "loaded" | "client" | "mainloop" | "exited"
    config_path,    \* args.config: Optional file record
    environ,        \* os.environ restricted to the credential keys
    credentials,    \* Optional Credentials record
    exit_code,      \* Optional process exit status
    log,            \* logger.error records written by run()
    client_built,   \* XClient.__init__ has run
    window_built,   \* TweetApp.__init__ has run (tk.Tk() exists)
    \* ---- direct applications of the pure functions ----
    vt_text, vt_max, vt_out,     \* validate_text(vt_text, vt_max) = vt_out
    fm_mapping, fm_out           \* Credentials.from_mapping(fm_mapping) = fm_out

appvars == <<dry_run, max_length, text, count_var, button, status_var, dialogs,
             queue, threads, errors_shown, callback_errors, post_calls,
             net_calls, event>>
runvars == <<main_pc, config_path, environ, credentials, exit_code, log,
             client_built, window_built>>
vtvars  == <<vt_text, vt_max, vt_out>>
fmvars  == <<fm_mapping, fm_out>>
vars    == <<appvars, runvars, vtvars, fmvars>>

----------------------------------------------------------------------------
(* Bounds of the model *)

MaxBuf      == 2   \* longest content typed into the text box
MaxLimit    == 2   \* largest --max-length
MaxSubmits  == 2   \* valid submits (worker threads) per run
MaxText     == 4   \* longest text handed to validate_text directly

----------------------------------------------------------------------------
(* Generic helpers *)

None == <<>>
Some(x) == <<x>>

Whitespace == {" ", "\n"}
Chars      == {"a", " ", "\n"}
TypedChars == {"a", " "}

RECURSIVE SeqsUpTo(_, _)
SeqsUpTo(S, n) ==
    IF n = 0 THEN {<<>>}
    ELSE LET shorter == SeqsUpTo(S, n - 1)
         IN  shorter \cup {Append(s, c) : s \in {t \in shorter : Len(t) = n - 1}, c \in S}

Digit(d) == CASE d = 0 -> "0" [] d = 1 -> "1" [] d = 2 -> "2" [] d = 3 -> "3"
              [] d = 4 -> "4" [] d = 5 -> "5" [] d = 6 -> "6" [] d = 7 -> "7"
              [] d = 8 -> "8" [] d = 9 -> "9"

RECURSIVE NatStr(_)
NatStr(n) == IF n < 10 THEN <<Digit(n)>> ELSE Append(NatStr(n \div 10), Digit(n % 10))

\* str(int) as used by the f-strings
IntStr(n) == IF n < 0 THEN <<"-">> \o NatStr(0 - n) ELSE NatStr(n)

----------------------------------------------------------------------------
(* validate_text *)

RECURSIVE lstrip(_)
lstrip(s) == IF s # <<>> /\ Head(s) \in Whitespace THEN lstrip(Tail(s)) ELSE s

RECURSIVE rstrip(_)
rstrip(s) == IF s # <<>> /\ s[Len(s)] \in Whitespace
             THEN rstrip(SubSeq(s, 1, Len(s) - 1)) ELSE s

strip_left(s) == lstrip(s)
strip(s) == rstrip(lstrip(s))

EmptyError == <<"Message is empty after trimming whitespace">>
TooLongError(max) == <<"Text exceeds maximum length of ">> \o IntStr(max) \o <<" characters">>

\* result: the returned string, or the ValueError that is raised
validate_text(t, max) ==
    LET cleaned == strip(t)
    IN  IF cleaned = <<>> THEN [ok |-> FALSE, value |-> <<>>, error |-> EmptyError]
        ELSE IF Len(cleaned) > max
             THEN [ok |-> FALSE, value |-> <<>>, error |-> TooLongError(max)]
             ELSE [ok |-> TRUE, value |-> cleaned, error |-> <<>>]

----------------------------------------------------------------------------
(* TweetApp *)

_count_label(length) == <<"Characters: ">> \o IntStr(length) \o <<"/">> \o IntStr(max_length)

PostingStatus   == <<"Posting...">>
RehearseStatus  == <<"Logging (dry-run)...">>
LoggedStatus    == <<"Logged locally (dry-run).">>
PostedStatus(tweet_id) ==
    <<"Posted! Tweet ID: ">> \o (IF tweet_id = None THEN <<"None">> ELSE tweet_id)

TweetIds    == {"1"}
ExcMessages == {"401 Unauthorized"}

NoThread == [pc |-> "done", validated |-> <<>>, tweet_id |-> None, exc |-> None,
             raised |-> None]

Running   == main_pc = "mainloop"
Modal     == dialogs # <<>>
Started   == DOMAIN threads
Latest    == Len(threads)

AppInit ==
    /\ dry_run \in BOOLEAN
    /\ max_length \in 1..MaxLimit
    /\ text = <<>>
    /\ count_var = _count_label(0)
    /\ button = "normal"
    /\ status_var = <<>>
    /\ dialogs = <<>>
    /\ queue = <<>>
    /\ threads = <<>>
    /\ errors_shown = {}
    /\ callback_errors = {}
    /\ post_calls = 0
    /\ net_calls = 0
    /\ event = "__init__"

\* The Text widget's own key binding: a key press edits the buffer.
KeyPress ==
    /\ Running /\ ~Modal
    /\ \/ \E c \in TypedChars : Len(text) < MaxBuf /\ text' = Append(text, c)
       \/ text # <<>> /\ text' = SubSeq(text, 1, Len(text) - 1)
    /\ event' = "KeyPress"
    /\ UNCHANGED <<dry_run, max_length, count_var, button, status_var, dialogs, queue,
                   threads, errors_shown, callback_errors, post_calls, net_calls>>
    /\ UNCHANGED <<runvars, vtvars, fmvars>>

\* <KeyRelease> binding
update_count ==
    /\ Running /\ ~Modal
    /\ count_var' = _count_label(Len(text))
    /\ event' = "update_count"
    /\ UNCHANGED <<dry_run, max_length, text, button, status_var, dialogs, queue,
                   threads, errors_shown, callback_errors, post_calls, net_calls>>
    /\ UNCHANGED <<runvars, vtvars, fmvars>>

NewThread(validated) ==
    [pc |-> "start", validated |-> validated, tweet_id |-> None, exc |-> None,
     raised |-> None]

\* line 161: the button state set before the worker starts
SubmittingState_kept == "normal"
SubmittingState == "disabled"

\* line 158: the dialog of a rejected text
InvalidDialog_generic(error) == [title |-> "Invalid text", message |-> <<"Invalid text">>]
InvalidDialog(error) == [title |-> "Invalid text", message |-> error]

\* Button command; Tk invokes it only while the button is not disabled.
post_message ==
    /\ Running /\ ~Modal
    /\ button = "normal"
    /\ LET content == Append(text, "\n")
           v == validate_text(content, max_length)
       IN  IF ~v.ok
           THEN /\ dialogs' = <<InvalidDialog(v.error)>> \o dialogs
                /\ errors_shown' = errors_shown \cup {v.error}
                /\ UNCHANGED <<button, status_var, threads, callback_errors>>
           ELSE /\ Len(threads) < MaxSubmits
                /\ button' = SubmittingState
                /\ status_var' = IF ~dry_run THEN PostingStatus ELSE RehearseStatus
                /\ threads' = Append(threads, NewThread(v.value))
                /\ errors_shown' = {}
                /\ callback_errors' = {}
                /\ UNCHANGED dialogs
    /\ event' = "post_message"
    /\ UNCHANGED <<dry_run, max_length, text, count_var, queue, post_calls, net_calls>>
    /\ UNCHANGED <<runvars, vtvars, fmvars>>

\* The user closes the topmost modal dialog; showerror returns.
DismissDialog ==
    /\ Running /\ Modal
    /\ dialogs' = Tail(dialogs)
    /\ event' = "DismissDialog"
    /\ UNCHANGED <<dry_run, max_length, text, count_var, button, status_var, queue,
                   threads, errors_shown, callback_errors, post_calls, net_calls>>
    /\ UNCHANGED <<runvars, vtvars, fmvars>>

----------------------------------------------------------------------------
(* XClient.post and the worker thread of post_message *)

\* tweepy responses: no response, a response without data, data without an
\* id, data with an id.
Responses ==
    {None} \cup {Some([data |-> d]) :
                    d \in {None} \cup {Some([id |-> i]) :
                                          i \in {None} \cup {Some(t) : t \in TweetIds}}}

\* response.data.get("id") if response and response.data else None
ExtractId(response) ==
    IF response # None /\ response[1].data # None
    THEN response[1].data[1].id
    ELSE None

\* XClient.post contacts the API unless dry_run is set
CallsApi_always(dry) == TRUE
CallsApi(dry) == ~dry

SetThread(w, rec) == threads' = [threads EXCEPT ![w] = rec]
\* root.after(0, cb): Tcl runs timers of equal delay in registration order
Registered_front(q, cb) == <<cb>> \o q
Registered(q, cb) == Append(q, cb)
After(cb) == queue' = Registered(queue, cb)
Callback(op, arg, owner) == [op |-> op, arg |-> arg, owner |-> owner]

\* worker calls self.client.post(validated, dry_run=self.dry_run)
PostCall(w) ==
    /\ Running
    /\ threads[w].pc = "start"
    /\ SetThread(w, [threads[w] EXCEPT !.pc = "posting"])
    /\ post_calls' = post_calls + 1
    /\ net_calls' = IF CallsApi(dry_run) THEN net_calls + 1 ELSE net_calls
    /\ event' = "worker"
    /\ UNCHANGED <<dry_run, max_length, text, count_var, button, status_var, dialogs,
                   queue, errors_shown, callback_errors>>
    /\ UNCHANGED <<runvars, vtvars, fmvars>>

\* XClient.post returns
PostReturn(w) ==
    /\ Running
    /\ threads[w].pc = "posting"
    /\ \E response \in Responses :
          SetThread(w, [threads[w] EXCEPT
                           !.pc = "returned",
                           !.tweet_id = IF CallsApi(dry_run) THEN ExtractId(response)
                                        ELSE None])
    /\ event' = "worker"
    /\ UNCHANGED <<dry_run, max_length, text, count_var, button, status_var, dialogs,
                   queue, errors_shown, callback_errors, post_calls, net_calls>>
    /\ UNCHANGED <<runvars, vtvars, fmvars>>

\* create_tweet raises (authentication, network, malformed response)
PostRaise(w) ==
    /\ Running
    /\ threads[w].pc = "posting"
    /\ CallsApi(dry_run)
    /\ \E m \in ExcMessages :
          SetThread(w, [threads[w] EXCEPT !.pc = "except1", !.exc = Some(m),
                                          !.raised = Some(m)])
    /\ event' = "worker"
    /\ UNCHANGED <<dry_run, max_length, text, count_var, button, status_var, dialogs,
                   queue, errors_shown, callback_errors, post_calls, net_calls>>
    /\ UNCHANGED <<runvars, vtvars, fmvars>>

WorkerStatus(w) == IF dry_run THEN LoggedStatus ELSE PostedStatus(threads[w].tweet_id)

\* what one worker step does to the widgets and to the callback queue
WorkerEffect_direct(cb) ==
    /\ IF cb.op = "set_status" THEN status_var' = cb.arg ELSE UNCHANGED status_var
    /\ IF cb.op = "enable" THEN button' = "normal" ELSE UNCHANGED button
    /\ UNCHANGED queue
WorkerEffect(cb) ==
    /\ After(cb)
    /\ UNCHANGED <<status_var, button>>

\* lines 167-168
EnqueueStatus(w) ==
    /\ Running
    /\ threads[w].pc = "returned"
    /\ WorkerEffect(Callback("set_status", WorkerStatus(w), w))
    /\ SetThread(w, [threads[w] EXCEPT !.pc = "finally"])
    /\ event' = "worker"
    /\ UNCHANGED <<dry_run, max_length, text, count_var, dialogs,
                   errors_shown, callback_errors, post_calls, net_calls>>
    /\ UNCHANGED <<runvars, vtvars, fmvars>>

\* lines 170-171: the lambda closes over the variable exc, not its value
EnqueueShowError(w) ==
    /\ Running
    /\ threads[w].pc = "except1"
    /\ WorkerEffect(Callback("showerror", <<>>, w))
    /\ SetThread(w, [threads[w] EXCEPT !.pc = "except2"])
    /\ event' = "worker"
    /\ UNCHANGED <<dry_run, max_length, text, count_var, dialogs,
                   errors_shown, callback_errors, post_calls, net_calls>>
    /\ UNCHANGED <<runvars, vtvars, fmvars>>

\* line 172
EnqueueClear(w) ==
    /\ Running
    /\ threads[w].pc = "except2"
    /\ WorkerEffect(Callback("set_status", <<>>, w))
    /\ SetThread(w, [threads[w] EXCEPT !.pc = "except_end"])
    /\ event' = "worker"
    /\ UNCHANGED <<dry_run, max_length, text, count_var, dialogs,
                   errors_shown, callback_errors, post_calls, net_calls>>
    /\ UNCHANGED <<runvars, vtvars, fmvars>>

\* try/finally: where the worker continues after the except block
AfterExcept_skip == "done"
AfterExcept == "finally"

\* end of the except block: Python unbinds the name exc
LeaveExcept(w) ==
    /\ Running
    /\ threads[w].pc = "except_end"
    /\ SetThread(w, [threads[w] EXCEPT !.pc = AfterExcept, !.exc = None])
    /\ event' = "worker"
    /\ UNCHANGED <<dry_run, max_length, text, count_var, button, status_var, dialogs,
                   queue, errors_shown, callback_errors, post_calls, net_calls>>
    /\ UNCHANGED <<runvars, vtvars, fmvars>>

\* lines 173-174, then the thread ends
EnqueueEnable(w) ==
    /\ Running
    /\ threads[w].pc = "finally"
    /\ WorkerEffect(Callback("enable", <<>>, w))
    /\ SetThread(w, [NoThread EXCEPT !.raised = threads[w].raised])
    /\ event' = "worker"
    /\ UNCHANGED <<dry_run, max_length, text, count_var, dialogs,
                   errors_shown, callback_errors, post_calls, net_calls>>
    /\ UNCHANGED <<runvars, vtvars, fmvars>>

WorkerStep(w) ==
    \/ PostCall(w)
    \/ PostReturn(w)
    \/ PostRaise(w)
    \/ EnqueueStatus(w)
    \/ EnqueueShowError(w)
    \/ EnqueueClear(w)
    \/ LeaveExcept(w)
    \/ EnqueueEnable(w)


\* The UI thread runs one root.after callback; the event loop of an open
\* modal dialog runs them as well.
RunCallback ==
    /\ Running
    /\ queue # <<>>
    /\ LET cb == Head(queue)
       IN  /\ queue' = Tail(queue)
           /\ CASE cb.op = "set_status" ->
                     /\ status_var' = cb.arg
                     /\ UNCHANGED <<button, dialogs, errors_shown, callback_errors>>
                [] cb.op = "enable" ->
                     /\ button' = "normal"
                     /\ UNCHANGED <<status_var, dialogs, errors_shown, callback_errors>>
                [] cb.op = "showerror" ->
                     \* str(exc) reads the worker's variable exc when the
                     \* callback runs
                     /\ IF threads[cb.owner].exc # None
                        THEN /\ dialogs' = <<[title |-> "Post failed",
                                              message |-> threads[cb.owner].exc]>> \o dialogs
                             /\ errors_shown' = errors_shown \cup {threads[cb.owner].exc}
                             /\ UNCHANGED callback_errors
                        ELSE /\ callback_errors' = callback_errors \cup {"NameError"}
                             /\ UNCHANGED <<dialogs, errors_shown>>
                     /\ UNCHANGED <<button, status_var>>
    /\ event' = "callback"
    /\ UNCHANGED <<dry_run, max_length, text, count_var, threads, post_calls, net_calls>>
    /\ UNCHANGED <<runvars, vtvars, fmvars>>

AppNext ==
    \/ KeyPress
    \/ update_count
    \/ post_message
    \/ DismissDialog
    \/ RunCallback
    \/ \E w \in Started : WorkerStep(w)

----------------------------------------------------------------------------
(* Credentials, load_credentials, run *)

CREDENTIAL_KEYS ==
    <<"X_BEARER_TOKEN", "X_CONSUMER_KEY", "X_CONSUMER_SECRET", "X_ACCESS_TOKEN",
      "X_ACCESS_SECRET">>

KeySet == {CREDENTIAL_KEYS[i] : i \in DOMAIN CREDENTIAL_KEYS}

\* dict.get(key): an Optional
Get(mapping, key) == IF key \in DOMAIN mapping THEN Some(mapping[key]) ELSE None

\* Python truth value of an Optional string: None and "" are false
Falsy(o) == o = None \/ o = Some("")

\* ", ".join(names)
RECURSIVE Join(_)
Join(names) ==
    IF Len(names) = 0 THEN <<>>
    ELSE IF Len(names) = 1 THEN names
         ELSE <<Head(names), ", ">> \o Join(Tail(names))

\* [key for key in CREDENTIAL_KEYS if not mapping.get(key)]
MissingKeys_first(mapping) ==
    LET all == SelectSeq(CREDENTIAL_KEYS, LAMBDA key : Falsy(Get(mapping, key)))
    IN  IF all = <<>> THEN all ELSE <<Head(all)>>
MissingKeys(mapping) == SelectSeq(CREDENTIAL_KEYS, LAMBDA key : Falsy(Get(mapping, key)))

NoCredentials == [bearer_token |-> "", consumer_key |-> "", consumer_secret |-> "",
                  access_token |-> "", access_secret |-> ""]

\* result: the Credentials record, or the ValueError that is raised
from_mapping(mapping) ==
    LET missing == MissingKeys(mapping)
    IN  IF missing # <<>>
        THEN [ok |-> FALSE, value |-> NoCredentials,
              error |-> <<"Missing X credentials: ">> \o Join(missing)]
        ELSE [ok |-> TRUE,
              value |-> [bearer_token    |-> mapping["X_BEARER_TOKEN"],
                         consumer_key    |-> mapping["X_CONSUMER_KEY"],
                         consumer_secret |-> mapping["X_CONSUMER_SECRET"],
                         access_token    |-> mapping["X_ACCESS_TOKEN"],
                         access_secret   |-> mapping["X_ACCESS_SECRET"]],
              error |-> <<>>]

EmptyMapping == [k \in {} |-> ""]

\* A file at args.config: whether it exists, whether its name ends in .json,
\* whether json.load accepts it as an object, and the key/value pairs it holds.
FileValues == {"", "f"}
EnvValues  == {"", "e"}

PartialMappings(values) ==
    UNION {[D -> values] : D \in SUBSET KeySet}

Files ==
    {[exists |-> FALSE, json |-> j, wellformed |-> TRUE, content |-> EmptyMapping] :
        j \in BOOLEAN}
    \cup {[exists |-> TRUE, json |-> TRUE, wellformed |-> FALSE, content |-> EmptyMapping]}
    \cup {[exists |-> TRUE, json |-> j, wellformed |-> TRUE, content |-> c] :
            j \in BOOLEAN, c \in PartialMappings(FileValues)}

\* result: the mapping, or the exception that is raised
parse_config_file(file) ==
    IF ~file.exists
    THEN [ok |-> FALSE, value |-> EmptyMapping, error |-> <<"Config file does not exist">>]
    ELSE IF file.json /\ ~file.wellformed
         THEN [ok |-> FALSE, value |-> EmptyMapping, error |-> <<"JSONDecodeError">>]
         ELSE [ok |-> TRUE, value |-> file.content, error |-> <<>>]

\* os.environ.get(key) or config.get(key, "")
Merge(env, config, key) ==
    IF ~Falsy(Get(env, key)) THEN env[key]
    ELSE IF key \in DOMAIN config THEN config[key] ELSE ""

load_credentials(path, env) ==
    LET parsed == IF path # None THEN parse_config_file(path[1])
                  ELSE [ok |-> TRUE, value |-> EmptyMapping, error |-> <<>>]
    IN  IF ~parsed.ok
        THEN [ok |-> FALSE, value |-> NoCredentials, error |-> parsed.error]
        ELSE from_mapping([key \in KeySet |-> Merge(env, parsed.value, key)])

\* An exception of load_credentials ends run() with SystemExit(1)
ExitsOnFailure_never(result) == FALSE
ExitsOnFailure(result) == ~result.ok

\* run(), lines 210-214
run_load ==
    /\ main_pc = "start"
    /\ LET result == load_credentials(config_path, environ)
       IN  IF ExitsOnFailure(result)
           THEN /\ log' = Append(log, <<"Credential loading failed: ">> \o result.error)
                /\ exit_code' = Some(1)
                /\ main_pc' = "exited"
                /\ UNCHANGED credentials
           ELSE /\ credentials' = Some(result.value)
                /\ main_pc' = "loaded"
                /\ UNCHANGED <<log, exit_code>>
    /\ UNCHANGED <<config_path, environ, client_built, window_built>>
    /\ UNCHANGED <<appvars, vtvars, fmvars>>

\* run(), line 216
run_client ==
    /\ main_pc = "loaded"
    /\ client_built' = TRUE
    /\ main_pc' = "client"
    /\ UNCHANGED <<config_path, environ, credentials, exit_code, log, window_built>>
    /\ UNCHANGED <<appvars, vtvars, fmvars>>

\* run(), line 217: TweetApp.__init__ creates the window with the initial
\* widget values
run_app ==
    /\ main_pc = "client"
    /\ window_built' = TRUE
    /\ main_pc' = "window"
    /\ text' = <<>>
    /\ count_var' = _count_label(0)
    /\ button' = "normal"
    /\ status_var' = <<>>
    /\ event' = "__init__"
    /\ UNCHANGED <<dry_run, max_length, dialogs, queue, threads, errors_shown,
                   callback_errors, post_calls, net_calls>>
    /\ UNCHANGED <<config_path, environ, credentials, exit_code, log, client_built>>
    /\ UNCHANGED <<vtvars, fmvars>>

\* run(), line 218: app.run() enters root.mainloop()
run_mainloop ==
    /\ main_pc = "window"
    /\ main_pc' = "mainloop"
    /\ UNCHANGED <<config_path, environ, credentials, exit_code, log, client_built,
                   window_built>>
    /\ UNCHANGED <<appvars, vtvars, fmvars>>

ValidCredentials == [bearer_token |-> "e", consumer_key |-> "e", consumer_secret |-> "e",
                     access_token |-> "e", access_secret |-> "e"]

----------------------------------------------------------------------------
(* Specifications *)

\* the application after construction, inside mainloop
RunDone ==
    /\ main_pc = "mainloop"
    /\ config_path = None
    /\ environ = [key \in KeySet |-> "e"]
    /\ credentials = Some(ValidCredentials)
    /\ exit_code = None
    /\ log = <<>>
    /\ client_built = TRUE
    /\ window_built = TRUE

VtIdle == vt_text = <<>> /\ vt_max = 0 /\ vt_out = None
FmIdle == fm_mapping = EmptyMapping /\ fm_out = None

Init == AppInit /\ RunDone /\ VtIdle /\ FmIdle
Next == AppNext
Spec == Init /\ [][Next]_vars

\* worker threads are scheduled, publish calls return or raise, and the
\* event loop keeps taking callbacks
Fairness ==
    /\ WF_vars(RunCallback)
    /\ \A w \in 1..MaxSubmits : WF_vars(w \in Started /\ WorkerStep(w))
FairSpec == Spec /\ Fairness

\* the process from the start of run() to the entry of mainloop
RunInit ==
    /\ AppInit
    /\ main_pc = "start"
    /\ config_path \in {None} \cup {Some(f) : f \in Files}
    /\ environ \in PartialMappings(EnvValues)
    /\ credentials = None
    /\ exit_code = None
    /\ log = <<>>
    /\ client_built = FALSE
    /\ window_built = FALSE
    /\ VtIdle /\ FmIdle
RunNext == run_load \/ run_client \/ run_app \/ run_mainloop
SpecRun == RunInit /\ [][RunNext]_vars

\* no application: only the pure functions are applied
AppParked ==
    /\ AppInit /\ dry_run = FALSE /\ max_length = 1
    /\ main_pc = "start" /\ config_path = None /\ environ = EmptyMapping
    /\ credentials = None /\ exit_code = None /\ log = <<>>
    /\ client_built = FALSE /\ window_built = FALSE

\* validate_text applied to every bounded text and limit
VtInit ==
    /\ AppParked /\ FmIdle
    /\ vt_text \in SeqsUpTo(Chars, MaxText)
    /\ vt_max \in (0 - 1)..MaxText
    /\ vt_out = None
validate_text_call ==
    /\ vt_out = None
    /\ vt_out' = Some(validate_text(vt_text, vt_max))
    /\ UNCHANGED <<vt_text, vt_max, appvars, runvars, fmvars>>
SpecValidate == VtInit /\ [][validate_text_call]_vars

\* Credentials.from_mapping applied to every bounded mapping
MappingValues == {"", "a", "b"}
FmInit ==
    /\ AppParked /\ VtIdle
    /\ fm_mapping \in PartialMappings(MappingValues)
    /\ fm_out = None
from_mapping_call ==
    /\ fm_out = None
    /\ fm_out' = Some(from_mapping(fm_mapping))
    /\ UNCHANGED <<fm_mapping, appvars, runvars, vtvars>>
SpecFromMapping == FmInit /\ [][from_mapping_call]_vars

----------------------------------------------------------------------------
(* Properties *)

InFlight == {w \in Started : threads[w].pc = "posting"}
\* workers whose publish call has neither returned nor raised yet
Unfinished == {w \in Started : threads[w].pc \in {"start", "posting"}}

\* C1: at most one XClient.post call is in flight at a time; a worker exists
\* only while the submit control is disabled, and the control stays
\* disabled until that worker's publish call has returned or raised.
C1_OnePublishInFlight ==
    /\ Cardinality(InFlight) <= 1
    /\ Cardinality(Unfinished) <= 1
    /\ Unfinished # {} => button = "disabled"

C1_Witness ==
    /\ Len(threads) = 2
    /\ threads[1].pc = "done"
    /\ threads[2].pc = "posting"

\* first and last index of a non-whitespace character, 0 if there is none
FirstInk(t) == IF \E i \in 1..Len(t) : t[i] \notin Whitespace
               THEN CHOOSE i \in 1..Len(t) :
                        /\ t[i] \notin Whitespace
                        /\ \A j \in 1..(i - 1) : t[j] \in Whitespace
               ELSE 0
LastInk(t)  == IF \E i \in 1..Len(t) : t[i] \notin Whitespace
               THEN CHOOSE i \in 1..Len(t) :
                        /\ t[i] \notin Whitespace
                        /\ \A j \in (i + 1)..Len(t) : t[j] \in Whitespace
               ELSE 0
\* the text without its leading and trailing whitespace
Trimmed(t) == IF FirstInk(t) = 0 THEN <<>> ELSE SubSeq(t, FirstInk(t), LastInk(t))

Rejected(t, max) == Trimmed(t) = <<>> \/ Len(Trimmed(t)) > max
RejectionMessage(t, max) ==
    IF Trimmed(t) = <<>> THEN <<"Message is empty after trimming whitespace">>
    ELSE <<"Text exceeds maximum length of ">> \o IntStr(max) \o <<" characters">>

\* C2: a submit whose text is rejected opens an error dialog carrying the
\* validation message, starts no worker, makes no publish call, and leaves
\* the submit control enabled and the status line unchanged.
C2_InvalidSubmit ==
    [][(event' = "post_message" /\ Rejected(text, max_length)) =>
          /\ dialogs' = <<[title |-> "Invalid text",
                           message |-> RejectionMessage(text, max_length)]>> \o dialogs
          /\ button' = "normal"
          /\ UNCHANGED <<status_var, threads, queue, post_calls, net_calls>>]_vars

C2_Witness ==
    /\ event = "post_message"
    /\ dialogs = <<[title |-> "Invalid text",
                    message |-> <<"Text exceeds maximum length of ", "1", " characters">>]>>
    /\ text = <<"a", "a">>
    /\ button = "normal"
    /\ Len(threads) = 1
    /\ status_var = <<"Posted! Tweet ID: ", "1">>

\* C3: every submit that passes validation is eventually followed by the
\* submit control being enabled again, whether the publish call returns or
\* raises.
C3_EventuallyEnabled == (button = "disabled") ~> (button = "normal")

C3_Witness ==
    /\ Len(threads) = 2
    /\ threads[1].pc = "done" /\ threads[1].raised # None
    /\ threads[2].pc = "done" /\ threads[2].raised = None
    /\ button = "normal"

\* C4: when the publish call of a submit raises, the application shows an
\* error dialog with the exception's message, clears the status line,
\* enables the submit control again and makes no further publish call
\* until the next submit.
C4_FailureReported ==
    (/\ Len(threads) > 0
     /\ threads[Latest].pc = "done"
     /\ threads[Latest].raised # None
     /\ button = "normal")
    => /\ threads[Latest].raised \in errors_shown
       /\ status_var = <<>>
       /\ post_calls = Len(threads)

\* C5: status text and button state change only on the UI thread: in
\* post_message, or in a callback taken from the head of the event queue;
\* the failure dialog opens only in such a callback; a worker step changes
\* no widget and at most appends one callback to the queue.
C5_UiThreadOnly ==
    [][/\ (status_var' # status_var \/ button' # button) =>
              \/ event' = "post_message"
              \/ event' = "callback" /\ queue # <<>> /\ queue' = Tail(queue)
       /\ (dialogs' # dialogs /\ dialogs' # <<>> /\ dialogs'[1].title = "Post failed") =>
              event' = "callback" /\ queue # <<>> /\ queue' = Tail(queue)
       /\ event' = "worker" =>
              /\ UNCHANGED <<status_var, button, dialogs, text, count_var>>
              /\ queue' = queue \/ (Len(queue') = Len(queue) + 1
                                    /\ SubSeq(queue', 1, Len(queue)) = queue)]_vars

C5_Witness ==
    /\ event = "callback"
    /\ button = "normal"
    /\ Len(threads) = 1 /\ threads[1].raised # None
    /\ status_var = <<>>
    /\ dialogs # <<>>

\* C6: in dry-run mode no create_tweet call is ever made, XClient.post
\* returns None and never raises, and once a submit has completed the status
\* line reads "Logged locally (dry-run).".
C6_DryRunNoNetwork ==
    dry_run =>
        /\ net_calls = 0
        /\ \A w \in Started :
              /\ threads[w].raised = None
              /\ threads[w].pc \notin {"except1", "except2", "except_end"}
              /\ threads[w].pc = "returned" => threads[w].tweet_id = None
        /\ (Len(threads) > 0 /\ button = "normal") =>
              status_var = <<"Logged locally (dry-run).">>

C6_Witness ==
    /\ dry_run
    /\ Len(threads) = 2
    /\ post_calls = 2
    /\ button = "normal"
    /\ status_var = <<"Logged locally (dry-run).">>

KeyIndex(k) == CHOOSE i \in DOMAIN CREDENTIAL_KEYS : CREDENTIAL_KEYS[i] = k
\* the required keys that are absent from the mapping or map to ""
Absent(mapping) == {k \in KeySet : k \notin DOMAIN mapping \/ mapping[k] = ""}

\* msg is "Missing X credentials: " followed by exactly the names in keys,
\* in the order of CREDENTIAL_KEYS, separated by ", "
NamesExactly(msg, keys) ==
    LET n == Cardinality(keys)
    IN  /\ Len(msg) = 2 * n
        /\ msg[1] = "Missing X credentials: "
        /\ \A i \in 1..n : msg[2 * i] \in keys
        /\ \A i \in 1..(n - 1) : msg[2 * i + 1] = ", "
        /\ \A i \in 1..(n - 1) : KeyIndex(msg[2 * i]) < KeyIndex(msg[2 * i + 2])

\* C7: from_mapping fails iff a required key is absent or empty; the error
\* names exactly the missing keys, comma-separated, in the order of
\* CREDENTIAL_KEYS; on success each field is the mapping's value.
C7_FromMapping ==
    fm_out # None =>
        LET r == fm_out[1]
        IN  /\ r.ok <=> Absent(fm_mapping) = {}
            /\ ~r.ok => NamesExactly(r.error, Absent(fm_mapping))
            /\ r.ok => /\ r.value.bearer_token = fm_mapping["X_BEARER_TOKEN"]
                       /\ r.value.consumer_key = fm_mapping["X_CONSUMER_KEY"]
                       /\ r.value.consumer_secret = fm_mapping["X_CONSUMER_SECRET"]
                       /\ r.value.access_token = fm_mapping["X_ACCESS_TOKEN"]
                       /\ r.value.access_secret = fm_mapping["X_ACCESS_SECRET"]

C7_Witness ==
    /\ fm_out # None
    /\ ~fm_out[1].ok
    /\ DOMAIN fm_mapping = KeySet \ {"X_CONSUMER_KEY"}
    /\ fm_mapping["X_ACCESS_TOKEN"] = ""
    /\ fm_out[1].error = <<"Missing X credentials: ", "X_CONSUMER_KEY", ", ",
                           "X_ACCESS_TOKEN">>

\* C8: validate_text succeeds iff the text without leading and trailing
\* whitespace is non-empty and no longer than the maximum; it returns that
\* trimmed text, and otherwise raises the empty error or the too-long error
\* naming the maximum.
C8_ValidateText ==
    vt_out # None =>
        LET r == vt_out[1]
        IN  /\ r.ok <=> (Trimmed(vt_text) # <<>> /\ Len(Trimmed(vt_text)) <= vt_max)
            /\ r.ok => r.value = Trimmed(vt_text)
            /\ ~r.ok => r.error = RejectionMessage(vt_text, vt_max)

C8_Witness ==
    /\ vt_out # None
    /\ vt_text = <<" ", "a", " ", "a">>
    /\ vt_max = 3
    /\ vt_out[1].ok
    /\ vt_out[1].value = <<"a", " ", "a">>

\* the inputs of run() for which loading must fail
FileOf == config_path[1]
FileMissing   == config_path # None /\ ~FileOf.exists
FileMalformed == config_path # None /\ FileOf.exists /\ FileOf.json /\ ~FileOf.wellformed
Resolves(key) ==
    \/ key \in DOMAIN environ /\ environ[key] # ""
    \/ /\ config_path # None
       /\ key \in DOMAIN FileOf.content
       /\ FileOf.content[key] # ""
StartupFails == FileMissing \/ FileMalformed \/ \E key \in KeySet : ~Resolves(key)

\* C9: if loading the configuration or assembling the credentials fails,
\* run logs the error and exits with a non-zero status without building
\* the API client or the window and without a publish call; the window
\* exists only after credential assembly has succeeded.
C9_FatalStartup ==
    /\ StartupFails => main_pc \in {"start", "exited"}
    /\ main_pc = "exited" =>
          /\ StartupFails
          /\ exit_code # None /\ exit_code[1] # 0
          /\ log # <<>>
          /\ ~client_built /\ ~window_built
          /\ post_calls = 0 /\ net_calls = 0
    /\ (client_built \/ window_built) =>
          /\ credentials # None
          /\ credentials[1].bearer_token # ""
          /\ credentials[1].consumer_key # ""
          /\ credentials[1].consumer_secret # ""
          /\ credentials[1].access_token # ""
          /\ credentials[1].access_secret # ""

C9_Witness ==
    /\ main_pc = "exited"
    /\ exit_code = <<1>>
    /\ config_path # None /\ FileOf.exists /\ ~FileOf.json
    /\ DOMAIN FileOf.content = KeySet
    /\ FileOf.content["X_ACCESS_SECRET"] = ""
    /\ "X_ACCESS_SECRET" \notin DOMAIN environ
    /\ log = <<<<"Credential loading failed: ", "Missing X credentials: ",
                 "X_ACCESS_SECRET">>>>

\* C10: whenever the submit control is enabled the status line does not show
\* the in-progress text.
C10_NoProgressTextWhenEnabled ==
    button = "normal" =>
        status_var \notin {<<"Posting...">>, <<"Logging (dry-run)...">>}

C10_Witness ==
    /\ button = "normal"
    /\ event = "callback"
    /\ Len(threads) = 2
    /\ threads[1].raised # None
    /\ status_var = <<"Posted! Tweet ID: ", "None">>

====
